---- MODULE Spec2Model ----
(***************************************************************************)
(* A model of the refactor tool (src/src/main.rs): one run of main() on    *)
(* one input file, step by step; the output files it leaves on disk; and   *)
(* a second run on the same input (SpecRerun).                             *)
(*                                                                         *)
(* Strings that the program only stores, compares and copies (the token    *)
(* text of an item, an identifier) are TLA+ strings.  Strings the program  *)
(* builds or filters character by character (group names, module names,    *)
(* file names) are sequences of one-character strings.  The text of an     *)
(* output file is the sequence of the pieces pushed into it; a piece is a  *)
(* record [s, m]: s the literal text, m the module name spliced into it.   *)
(***************************************************************************)
EXTENDS Integers, Sequences, FiniteSets, TLC

VARIABLES
    argc,               \* args.len()
    readable,           \* fs::read_to_string succeeds
    parseable,          \* syn::parse_file succeeds
    input,              \* syntax_tree.items, in source order
    pc,                 \* position of main()
    err,                \* which expect()/panic ended the run ("" = none)
    imported_functions, \* HashMap<String, String>: first path segment -> use text
    functions,          \* HashMap<String, String>: function name -> function text
    main_function,      \* Option<String>: <<>> = None, <<text>> = Some(text)
    other_items,        \* Vec<String>
    grouped_functions,  \* HashMap<String, Vec<(String, String)>>
    group_imports,      \* HashMap<String, HashSet<String>>
    group_counter,
    todo_functions,     \* keys of `functions` the Step 3 loop has not visited
    todo_groups,        \* keys of `grouped_functions` the Step 4 loop has not visited
    mod_declarations,   \* Vec<String>
    use_statements,     \* Vec<String>
    written,            \* files written by this run: path -> contents
    rustfmt_failed,     \* paths whose rustfmt invocation failed in this run
    run,                \* 1 = first run, 2 = the re-run on the same input
    prev_written        \* what the first run wrote (<<>> during the first run)

vars == <<argc, readable, parseable, input, pc, err, imported_functions, functions,
          main_function, other_items, grouped_functions, group_imports,
          group_counter, todo_functions, todo_groups, mod_declarations,
          use_statements, written, rustfmt_failed, run, prev_written>>

-----------------------------------------------------------------------------
(* Bounds *)

\* longest input file, in top-level items
MaxItems == 4

-----------------------------------------------------------------------------
(* Generic helpers for maps and sequences *)

EmptyMap == <<>>

\* HashMap::insert
Insert(m, k, v) == [x \in (DOMAIN m) \cup {k} |-> IF x = k THEN v ELSE m[x]]

Range(s) == {s[i] : i \in DOMAIN s}

\* every order in which an unordered collection can be iterated
Orders(S) == {s \in [1..Cardinality(S) -> S] : \A i, j \in DOMAIN s : s[i] = s[j] => i = j}

-----------------------------------------------------------------------------
(* Characters and the names built from them *)

Letters == {"a","b","c","d","e","f","g","h","i","j","k","l","m",
            "n","o","p","q","r","s","t","u","v","w","x","y","z"}

Digits == <<"0","1","2","3","4","5","6","7","8","9">>

\* char::is_alphanumeric
is_alphanumeric(c) == c \in Letters \cup Range(Digits)

\* "general"
General == <<"g","e","n","e","r","a","l">>

\* "{}" applied to an integer: its decimal digits
RECURSIVE Decimal(_)
Decimal(n) == IF n < 10 THEN <<Digits[n + 1]>>
              ELSE Decimal(n \div 10) \o <<Digits[(n % 10) + 1]>>

\* format!("group_{}", n)
GroupName(n) == <<"g","r","o","u","p","_">> \o Decimal(n)

\* filename.chars().filter(|c| c.is_alphanumeric() || *c == '_').collect()
sanitize_filename(filename) ==
    SelectSeq(filename, LAMBDA c : is_alphanumeric(c) \/ c = "_")

\* format!("{}_mod", sanitized_group_name)
ModuleName(group_name) == sanitize_filename(group_name) \o <<"_","m","o","d">>

\* output_dir.join(format!("{}.rs", module_name)), relative to output_dir
ModulePath(module_name) == module_name \o <<".","r","s">>

\* output_dir.join("tmp_main.rs"), relative to output_dir
TmpMainPath == <<"t","m","p","_","m","a","i","n",".","r","s">>

-----------------------------------------------------------------------------
(* Top-level items of the input.  An item is what syn::parse_file yields:  *)
(*   kind  "use" | "fn" | "other"                                          *)
(*   name  use: first identifier of the tree; fn: sig.ident                *)
(*   path  use: the tree is a UseTree::Path (use a::...), not use a; etc.  *)
(*   refs  fn: the first segments of the expression paths in the body      *)
(*   tok   the item's token-stream text; fmt: tok as rustfmt prints it     *)

Item(kind, name, path, refs, tok, fmt) ==
    [kind |-> kind, name |-> name, path |-> path, refs |-> refs, tok |-> tok, fmt |-> fmt]

UseNetA == Item("use", "net", TRUE, {}, "use net :: a ;", "use net::a;")
UseNetB == Item("use", "net", TRUE, {}, "use net :: b ;", "use net::b;")
UseIo == Item("use", "io", TRUE, {}, "use io :: r ;", "use io::r;")
UseFs == Item("use", "fs", FALSE, {}, "use fs ;", "use fs;")
FnMain == Item("fn", "main", FALSE, {"a"}, "fn main () { a () ; }", "fn main() { a(); }")
FnA == Item("fn", "a", FALSE, {"net"}, "fn a () { net :: x () ; }", "fn a() { net::x(); }")
FnC == Item("fn", "c", FALSE, {"net", "c"}, "fn c () { net :: y () ; c () ; }", "fn c() { net::y(); c(); }")
FnB == Item("fn", "b", FALSE, {"fs", "b"}, "fn b () { fs :: z () ; b () ; }", "fn b() { fs::z(); b(); }")
ConstK == Item("other", "K", FALSE, {}, "const K : u8 = 1 ;", "const K: u8 = 1;")

Universe == {UseNetA, UseNetB, UseIo, UseFs, FnMain, FnA, FnC, FnB, ConstK}

\* the input files: every sequence of distinct items, up to MaxItems long
Inputs == {s \in UNION {[1..n -> Universe] : n \in 0..MaxItems} :
              \A i, j \in DOMAIN s : s[i] = s[j] => i = j}

\* item.to_token_stream().to_string()
item_to_string(item) == item.tok

\* syn::parse_str::<ItemFn>(func_code): the function item that text denotes
parse_str(func_code) == CHOOSE i \in Universe : i.kind = "fn" /\ i.tok = func_code

\* CrateUsageVisitor over one function: every expression path is visited;
\* its first segment is looked up in imported_functions and the VALUE found
\* (the use statement's text) is inserted into used_crates
visit_item_fn(imports, func_ast) ==
    {imports[r] : r \in func_ast.refs \cap DOMAIN imports}

-----------------------------------------------------------------------------
(* Output text *)

\* a piece of literal text
Piece(s) == [s |-> s, m |-> <<>>]

\* format!("pub mod {};", module_name)
ModDecl(module_name) == [s |-> "pub mod {};", m |-> module_name]

\* format!("pub use {}::*;", module_name)
UseStmt(module_name) == [s |-> "pub use {}::*;", m |-> module_name]

\* what rustfmt prints for one piece: an item's token text in its canonical
\* layout; text that is already canonical is left as it is
Pretty(piece) ==
    IF \E i \in Universe : i.tok = piece.s
    THEN [piece EXCEPT !.s = (CHOOSE i \in Universe : i.tok = piece.s).fmt]
    ELSE piece

\* what a successful rustfmt run prints for a whole file
Formatted(code) == [i \in DOMAIN code |-> Pretty(code[i])]

\* the item as it reads in an output file
Rendered(item) == Pretty(Piece(item_to_string(item)))

-----------------------------------------------------------------------------
(* Step 2: ingestion of the top-level items (main.rs 45-73) *)

NoBuckets == [imported_functions |-> EmptyMap, functions |-> EmptyMap,
              main_function |-> <<>>, other_items |-> <<>>]

\* one turn of `for item in &syntax_tree.items { match item { ... } }`
IngestItem(b, item) ==
    CASE item.kind = "use" ->
           IF item.path
           THEN [b EXCEPT !.imported_functions = Insert(@, item.name, item_to_string(item))]
           ELSE b
      [] item.kind = "fn" ->
           IF item.name = "main"
           THEN [b EXCEPT !.main_function = <<item_to_string(item)>>]
           ELSE [b EXCEPT !.functions = Insert(@, item.name, item_to_string(item))]
      [] OTHER -> [b EXCEPT !.other_items = Append(@, item_to_string(item))]

RECURSIVE IngestAll(_, _)
IngestAll(b, items) ==
    IF items = <<>> THEN b ELSE IngestAll(IngestItem(b, Head(items)), Tail(items))

-----------------------------------------------------------------------------
(* The run *)

RunVars == <<imported_functions, functions, main_function, other_items,
             grouped_functions, group_imports, group_counter, todo_functions,
             todo_groups, mod_declarations, use_statements>>

EnvVars == <<argc, readable, parseable, input, run, prev_written>>

\* the state main() starts in, on the given input and environment
Start(n, r, p, items) ==
    /\ argc = n
    /\ readable = r
    /\ parseable = p
    /\ input = items
    /\ pc = "args"
    /\ err = ""
    /\ imported_functions = EmptyMap
    /\ functions = EmptyMap
    /\ main_function = <<>>
    /\ other_items = <<>>
    /\ grouped_functions = EmptyMap
    /\ group_imports = EmptyMap
    /\ group_counter = 1
    /\ todo_functions = {}
    /\ todo_groups = {}
    /\ mod_declarations = <<>>
    /\ use_statements = <<>>
    /\ written = EmptyMap
    /\ rustfmt_failed = {}

Init ==
    /\ \E n \in 1..3, r \in BOOLEAN, p \in BOOLEAN, items \in Inputs :
          Start(n, r, p, items)
    /\ run = 1
    /\ prev_written = <<>>

\* a panic: the process ends where it is, files already written stay
Panic(why) ==
    /\ pc' = "fatal"
    /\ err' = why

\* a slip in the argument check: extra arguments are let through
ArgsOkAtLeast(n) == n >= 2

\* args.len() != 2 is false
ArgsOk(n) == n = 2

\* main.rs 30-34
CheckArgs ==
    /\ pc = "args"
    /\ pc' = IF ArgsOk(argc) THEN "read" ELSE "usage"
    /\ UNCHANGED <<err, RunVars, EnvVars, written, rustfmt_failed>>

\* main.rs 36-39
ReadFile ==
    /\ pc = "read"
    /\ IF readable THEN pc' = "parse" /\ err' = err
       ELSE Panic("Failed to read the file")
    /\ UNCHANGED <<RunVars, EnvVars, written, rustfmt_failed>>

\* main.rs 42-78: parse, ingest every item, set up the Step 3 loop
ParseAndIngest ==
    /\ pc = "parse"
    /\ IF parseable
       THEN LET b == IngestAll(NoBuckets, input) IN
            /\ imported_functions' = b.imported_functions
            /\ functions' = b.functions
            /\ main_function' = b.main_function
            /\ other_items' = b.other_items
            /\ todo_functions' = DOMAIN b.functions
            /\ pc' = "group"
            /\ err' = err
       ELSE /\ Panic("Unable to parse file")
            /\ UNCHANGED <<imported_functions, functions, main_function,
                           other_items, todo_functions>>
    /\ UNCHANGED <<grouped_functions, group_imports, group_counter, todo_groups,
                   mod_declarations, use_statements, EnvVars, written, rustfmt_failed>>

-----------------------------------------------------------------------------
(* Step 3: grouping (main.rs 76-105) *)

\* map.entry(k).or_default(): the value under k, or the default
OrDefault(m, k, default) == IF k \in DOMAIN m THEN m[k] ELSE default

\* main.rs 89-93
GroupNameFor(used_crates, counter) ==
    IF used_crates # {} THEN GroupName(counter) ELSE General

\* one turn of `for (func_name, func_code) in &functions`, the map being
\* iterated in an order of the hasher's choosing; the re-parse may fail
GroupStep ==
    /\ pc = "group"
    /\ \E func_name \in todo_functions, reparsed \in BOOLEAN :
          LET func_code == functions[func_name] IN
          IF ~reparsed
          THEN /\ Panic("Unable to parse function AST")
               /\ UNCHANGED <<grouped_functions, group_imports, group_counter,
                              todo_functions>>
          ELSE LET used_crates == visit_item_fn(imported_functions, parse_str(func_code))
                   group_name == GroupNameFor(used_crates, group_counter)
               IN /\ group_counter' =
                        IF used_crates # {} /\ group_name \notin DOMAIN grouped_functions
                        THEN group_counter + 1 ELSE group_counter
                  /\ grouped_functions' =
                        Insert(grouped_functions, group_name,
                               Append(OrDefault(grouped_functions, group_name, <<>>),
                                      <<func_name, func_code>>))
                  /\ group_imports' =
                        Insert(group_imports, group_name,
                               OrDefault(group_imports, group_name, {}) \cup used_crates)
                  /\ todo_functions' = todo_functions \ {func_name}
                  /\ UNCHANGED <<pc, err>>
    /\ UNCHANGED <<imported_functions, functions, main_function, other_items,
                   todo_groups, mod_declarations, use_statements, EnvVars,
                   written, rustfmt_failed>>

\* the Step 3 loop ends; main.rs 107-111 set up the Step 4 loop
GroupDone ==
    /\ pc = "group"
    /\ todo_functions = {}
    /\ pc' = "emit"
    /\ todo_groups' = DOMAIN grouped_functions
    /\ UNCHANGED <<err, imported_functions, functions, main_function, other_items,
                   grouped_functions, group_imports, group_counter, todo_functions,
                   mod_declarations, use_statements, EnvVars, written, rustfmt_failed>>

-----------------------------------------------------------------------------
(* rustfmt (main.rs 193-207) *)

\* how one invocation of the rustfmt program can go: it formats the text;
\* it cannot be spawned; its pipes break (the stdin write or the wait fails);
\* it runs and exits with a failure, printing nothing
RustfmtOutcomes == {"ok", "spawn_failed", "pipe_failed", "exit_failure"}

\* the invocation failed
RustfmtFailure(outcome) == outcome # "ok"

\* rustfmt_code panics: the expect()s on spawn, write_all and
\* wait_with_output do; output.status is never looked at
RustfmtPanics(outcome) == outcome \in {"spawn_failed", "pipe_failed"}

\* the message of that panic
RustfmtPanicMessage(outcome) ==
    IF outcome = "spawn_failed" THEN "Failed to spawn rustfmt"
    ELSE "Failed to write to rustfmt stdin"

\* rustfmt_code returns output.stdout
rustfmt_code(code, outcome) == IF outcome = "ok" THEN Formatted(code) ELSE <<>>

-----------------------------------------------------------------------------
(* Step 4: one file per group (main.rs 111-149) *)

\* a slip in the skip test: keyed on the group's name alone
SkipGroupByName(group_name, funcs, fns) == group_name = General

\* main.rs 112: group_name == "general" && funcs.len() == functions.len()
SkipGroup(group_name, funcs, fns) ==
    group_name = General /\ Len(funcs) = Cardinality(DOMAIN fns)

\* main.rs 120-140, the group's import set being iterated in import_order
ModuleCode(imports, import_order, funcs) ==
    LET found == SelectSeq(import_order, LAMBDA import : import \in DOMAIN imports)
    IN <<Piece("use crate::*;")>>
         \o [k \in DOMAIN found |-> Piece(imports[found[k]])]
         \o [k \in DOMAIN funcs |-> Piece(funcs[k][2])]

\* one turn of `for (group_name, funcs) in &grouped_functions`
EmitStep ==
    /\ pc = "emit"
    /\ \E group_name \in todo_groups :
          LET funcs == grouped_functions[group_name] IN
          IF SkipGroup(group_name, funcs, functions)
          THEN /\ todo_groups' = todo_groups \ {group_name}
               /\ UNCHANGED <<pc, err, mod_declarations, use_statements, written,
                              rustfmt_failed>>
          ELSE \E import_order \in Orders(group_imports[group_name]),
                  outcome \in RustfmtOutcomes :
               LET module_name == ModuleName(group_name)
                   module_code == ModuleCode(imported_functions, import_order, funcs)
                   output_path == ModulePath(module_name)
               IN /\ rustfmt_failed' = IF RustfmtFailure(outcome)
                                       THEN rustfmt_failed \cup {output_path}
                                       ELSE rustfmt_failed
                  /\ IF RustfmtPanics(outcome)
                     THEN /\ Panic(RustfmtPanicMessage(outcome))
                          /\ UNCHANGED <<todo_groups, mod_declarations,
                                         use_statements, written>>
                     ELSE /\ written' = Insert(written, output_path,
                                               rustfmt_code(module_code, outcome))
                          /\ mod_declarations' = Append(mod_declarations, ModDecl(module_name))
                          /\ use_statements' = Append(use_statements, UseStmt(module_name))
                          /\ todo_groups' = todo_groups \ {group_name}
                          /\ UNCHANGED <<pc, err>>
    /\ UNCHANGED <<imported_functions, functions, main_function, other_items,
                   grouped_functions, group_imports, group_counter, todo_functions,
                   EnvVars>>

\* the Step 4 loop ends
EmitDone ==
    /\ pc = "emit"
    /\ todo_groups = {}
    /\ pc' = "entry"
    /\ UNCHANGED <<err, RunVars, EnvVars, written, rustfmt_failed>>

-----------------------------------------------------------------------------
(* Step 5: the entry file (main.rs 152-189) *)

\* main.rs 153-181, imported_functions.values() coming in import_order
TmpMain(imports, import_order, others, mods, uses, main_func) ==
    [k \in DOMAIN import_order |-> Piece(imports[import_order[k]])]
      \o [k \in DOMAIN others |-> Piece(others[k])]
      \o mods
      \o uses
      \o <<Piece(main_func)>>

WriteEntry ==
    /\ pc = "entry"
    /\ IF main_function = <<>>
       THEN /\ pc' = "done"
            /\ UNCHANGED <<err, written, rustfmt_failed>>
       ELSE \E import_order \in Orders(DOMAIN imported_functions),
               outcome \in RustfmtOutcomes :
            LET tmp_main == TmpMain(imported_functions, import_order, other_items,
                                    mod_declarations, use_statements, main_function[1])
            IN /\ rustfmt_failed' = IF RustfmtFailure(outcome)
                                    THEN rustfmt_failed \cup {TmpMainPath}
                                    ELSE rustfmt_failed
               /\ IF RustfmtPanics(outcome)
                  THEN /\ Panic(RustfmtPanicMessage(outcome))
                       /\ UNCHANGED written
                  ELSE /\ written' = Insert(written, TmpMainPath,
                                            rustfmt_code(tmp_main, outcome))
                       /\ pc' = "done"
                       /\ UNCHANGED err
    /\ UNCHANGED <<RunVars, EnvVars>>

-----------------------------------------------------------------------------
(* The program is run again on the same input, in an empty output directory *)

Rerun ==
    /\ pc = "done"
    /\ run = 1
    /\ run' = 2
    /\ prev_written' = written
    /\ pc' = "args"
    /\ err' = ""
    /\ imported_functions' = EmptyMap
    /\ functions' = EmptyMap
    /\ main_function' = <<>>
    /\ other_items' = <<>>
    /\ grouped_functions' = EmptyMap
    /\ group_imports' = EmptyMap
    /\ group_counter' = 1
    /\ todo_functions' = {}
    /\ todo_groups' = {}
    /\ mod_declarations' = <<>>
    /\ use_statements' = <<>>
    /\ written' = EmptyMap
    /\ rustfmt_failed' = {}
    /\ UNCHANGED <<argc, readable, parseable, input>>

-----------------------------------------------------------------------------

Next ==
    \/ CheckArgs
    \/ ReadFile
    \/ ParseAndIngest
    \/ GroupStep
    \/ GroupDone
    \/ EmitStep
    \/ EmitDone
    \/ WriteEntry

Spec == Init /\ [][Next]_vars

NextRerun == Next \/ Rerun

SpecRerun == Init /\ [][NextRerun]_vars

-----------------------------------------------------------------------------
(* What the claims speak of *)

\* the run ended normally (main.rs 189)
Completed == pc = "done"

\* the non-entry functions of the input, one per distinct name (the last)
InputFunctions ==
    {input[k] : k \in {i \in DOMAIN input :
        /\ input[i].kind = "fn"
        /\ input[i].name # "main"
        /\ \A j \in DOMAIN input :
              (j > i /\ input[j].kind = "fn") => input[j].name # input[i].name}}

\* the import statements of the input
InputImports == {input[k] : k \in {i \in DOMAIN input : input[i].kind = "use"}}

\* the entry functions of the input
InputEntries == {input[k] : k \in {i \in DOMAIN input :
                     input[i].kind = "fn" /\ input[i].name = "main"}}

\* the usage set the run computes for a function
UsageSet(f) == visit_item_fn(imported_functions, f)

GeneralFunctions == {f \in InputFunctions : UsageSet(f) = {}}

\* "tmp_main.rs" and "general_mod.rs", spelled out
EntryFile == <<"t","m","p","_","m","a","i","n",".","r","s">>
GeneralFile == <<"g","e","n","e","r","a","l","_","m","o","d",".","r","s">>

ModuleFiles == (DOMAIN written) \ {EntryFile}

\* where a piece of text stands in the output: <<file, position>>
Places(piece) ==
    UNION {{<<p, i>> : i \in {k \in DOMAIN written[p] : written[p][k] = piece}} :
              p \in DOMAIN written}

\* the group keys under which a function is a member
GroupKeys(f) ==
    {g \in DOMAIN grouped_functions :
        \E k \in DOMAIN grouped_functions[g] : grouped_functions[g][k][1] = f.name}

\* the groups Step 4 writes a file for
RetainedGroups ==
    {g \in DOMAIN grouped_functions :
        ~(g = General /\ Len(grouped_functions[g]) = Cardinality(InputFunctions))}

-----------------------------------------------------------------------------
(* The claims *)

\* C1 (coverage and uniqueness): after a completed run every non-entry
\* function of the input stands in exactly one place of the output, inline in
\* the entry file or once in one module file.  Stated for the runs in which
\* every rustfmt invocation succeeded.
CoverageAndUniqueness ==
    (Completed /\ rustfmt_failed = {}) =>
        \A f \in InputFunctions : Cardinality(Places(Rendered(f))) = 1

\* C2 (group-key stability): once grouping is over, two non-entry functions
\* with the same usage set are members of the same group.
GroupKeyStability ==
    pc \in {"emit", "entry", "done"} =>
        \A f, g \in InputFunctions :
            UsageSet(f) = UsageSet(g) => GroupKeys(f) = GroupKeys(g)

\* C3 (determinism across runs): a second run on the same input, every
\* rustfmt invocation of both runs succeeding, writes the same files with the
\* same contents as the first.
DeterminismAcrossRuns ==
    (run = 2 /\ Completed /\ rustfmt_failed = {}
       /\ \A p \in DOMAIN prev_written : prev_written[p] # <<>>) =>
        written = prev_written

\* C4 (degenerate-case collapse): when every usage set is empty and there is
\* at least one non-entry function, a completed run writes no module file and
\* every non-entry function stands inline in the entry file.  Stated for the
\* runs in which every rustfmt invocation succeeded.
DegenerateCollapse ==
    (Completed /\ rustfmt_failed = {}
       /\ InputFunctions # {} /\ GeneralFunctions = InputFunctions) =>
        /\ ModuleFiles = {}
        /\ EntryFile \in DOMAIN written
        /\ \A f \in InputFunctions : Rendered(f) \in Range(written[EntryFile])

\* the zero-module-files half of C4, which the code does keep
DegenerateNoModules ==
    (Completed /\ InputFunctions # {} /\ GeneralFunctions = InputFunctions) =>
        ModuleFiles = {}

ImportRetention ==
    (Completed /\ rustfmt_failed = {} /\ EntryFile \in DOMAIN written) =>
        \A u \in InputImports : Rendered(u) \in Range(written[EntryFile])

\* C7 (entry-function placement): for an input with an entry function, the
\* entry file of a completed run holds the entry function exactly once, as
\* its last element, and no module file holds it.
EntryFunctionPlacement ==
    (Completed /\ InputEntries # {}) =>
        /\ EntryFile \in DOMAIN written
        /\ \E e \in InputEntries :
              /\ written[EntryFile] # <<>>
              /\ written[EntryFile][Len(written[EntryFile])] = Rendered(e)
              /\ Places(Rendered(e)) = {<<EntryFile, Len(written[EntryFile])>>}

\* C7 for the runs whose entry file rustfmt did format: there the placement holds
EntryFunctionPlacementFormatted ==
    (Completed /\ InputEntries # {} /\ EntryFile \notin rustfmt_failed) =>
        /\ EntryFile \in DOMAIN written
        /\ \E e \in InputEntries :
              /\ written[EntryFile] # <<>>
              /\ written[EntryFile][Len(written[EntryFile])] = Rendered(e)
              /\ Places(Rendered(e)) = {<<EntryFile, Len(written[EntryFile])>>}

\* C8 (produced output): a completed run has written exactly one entry file,
\* tmp_main.rs, and exactly one module file per retained group, under
\* distinct names.
ProducedOutput ==
    Completed =>
        /\ EntryFile \in DOMAIN written
        /\ Cardinality(ModuleFiles) = Cardinality(RetainedGroups)

\* the module-file half of C8, which the code does keep
OneModuleFilePerRetainedGroup ==
    Completed => Cardinality(ModuleFiles) = Cardinality(RetainedGroups)

\* C9 (formatter failure is fatal): once a rustfmt invocation has failed for
\* a file, the run has aborted and that file has not been written.
FormatterFailureIsFatal ==
    \A p \in rustfmt_failed : pc = "fatal" /\ p \notin DOMAIN written

\* the half of C9 the code does keep: a step in which rustfmt_code panics
\* aborts the run and leaves the files written so far as they are
SpawnFailureLeavesFiles ==
    [][pc' = "fatal" => written' = written]_vars

\* C10 (no output on early failure): a run given a wrong argument count, an
\* unreadable file or an unparseable file, or ended by a failed re-parse of a
\* function, has written no file.
NoOutputOnEarlyFailure ==
    (argc # 2 \/ ~readable \/ ~parseable \/ err = "Unable to parse function AST") =>
        DOMAIN written = {}

\* C10's case: the re-parse of a function failed after another function had
\* been grouped, and the run ended with nothing written
ReparseFailedMidway ==
    /\ pc = "fatal"
    /\ err = "Unable to parse function AST"
    /\ DOMAIN grouped_functions # {}
    /\ DOMAIN written = {}

====
